---- MODULE Spec2Model ----
(***************************************************************************)
(* Batch evaluation engine (src/src/evaluate_rag.py) and log record        *)
(* extractor (src/src/visualize.py) of the RAG evaluation tool.            *)
(*                                                                         *)
(* A run is evaluate_dataset: set-up, one step per batch, completion.      *)
(* The text log it writes is kept line by line; the extractor reads that   *)
(* text back into per-sample records.                                      *)
(***************************************************************************)
EXTENDS Integers, Sequences, FiniteSets, TLC

\* Bounds of the model: dataset size and batch size explored.
MaxSamples == 3
MaxBatch == 3

\* Bound of the model: number of lines of a text given to the extractor.
MaxLines == 3

\* Bound of the model: number of lines of a text made of the lines of a
\* results block.
MaxBlockLines == 4

(***************************************************************************)
(* Values: a score or a content item.  Numbers are exact fractions n/d.    *)
(***************************************************************************)
Num(n, d) == [kind |-> "num", n |-> n, d |-> d, s |-> ""]
NaN == [kind |-> "nan", n |-> 0, d |-> 1, s |-> ""]
NoneV == [kind |-> "none", n |-> 0, d |-> 1, s |-> ""]
Str(t) == [kind |-> "str", n |-> 0, d |-> 1, s |-> t]

\* What the scoring backend may return for one sample of a metric: a number
\* or a missing marker (nan or None).  accuracy ranges over 0.5, 1.0 and nan,
\* completeness over 0.0 and None, the other metrics over 0.0 and nan.
ScoreValues(m) ==
    IF m = "accuracy" THEN {Num(1, 2), Num(1, 1), NaN}
    ELSE IF m = "completeness" THEN {Num(0, 1), NoneV}
    ELSE {Num(0, 1), NaN}

\* Fractions <<numerator, denominator>>, unreduced; compared by cross product.
FracEq(a, b) == a[1] * b[2] = b[1] * a[2]
FracAdd(a, b) == <<a[1] * b[2] + b[1] * a[2], a[2] * b[2]>>

RECURSIVE SumFrac(_)
SumFrac(xs) ==
    IF xs = <<>> THEN <<0, 1>>
    ELSE FracAdd(<<Head(xs).n, Head(xs).d>>, SumFrac(Tail(xs)))

(***************************************************************************)
(* create_metrics: the known metric definitions; unknown names are         *)
(* ignored with a warning.                                                 *)
(***************************************************************************)
metrics_definitions ==
    {"accuracy", "completeness", "relevance", "coherence", "conciseness"}

create_metrics(metric_names) ==
    SelectSeq(metric_names, LAMBDA name : name \in metrics_definitions)

Range(f) == {f[x] : x \in DOMAIN f}

(***************************************************************************)
(* State of one run.                                                       *)
(***************************************************************************)
VARIABLES
    pc,              \* "start", "loop", "done"
    metric_names,    \* the metric names requested on the command line
    metrics,         \* create_metrics(metric_names)
    dataset_exists,  \* os.path.exists(dataset_path)
    total_samples,   \* len(dataset)
    sample_count,    \* the argument, then the clamped count
    batch_size,
    output_file,     \* a text log file was requested
    json_output,     \* a JSON summary file was requested
    visualize,
    file_out,        \* "none", "open", "closed"
    file_log,        \* lines of the text log file
    console,         \* lines written to the console
    logged,          \* the messages passed to log(), in call order
    i,               \* loop variable of the batch loop
    all_results,     \* metric name -> scores accumulated
    attempts,        \* per attempted batch: what the scoring call did
    completed,       \* the completion step (line 197) was reached
    summary_results, \* metric name -> mean <<sum, count>> as a fraction
    json_file,       \* [written, object]: the JSON summary file
    ret,             \* [returned, value]: the dictionary returned
    records,         \* [extracted, raised, list]: records read back from
                     \* the log, or the extractor raised
    html             \* [rendered, raised, summary_data, avg_total]: the
                     \* figures of the HTML report

vars == <<pc, metric_names, metrics, dataset_exists, total_samples,
          sample_count, batch_size, output_file, json_output, visualize,
          file_out, file_log, console, logged, i, all_results, attempts,
          completed, summary_results, json_file, ret, records, html>>

config == <<metric_names, metrics, dataset_exists, total_samples, batch_size,
            output_file, json_output, visualize>>

(***************************************************************************)
(* log(message, to_console): one line of text, kept structured.            *)
(*   kind "results"   "\n批次 N 评估结果:"         num = N                 *)
(*   kind "scores"    "<name>: [<items>]"          text = the items        *)
(*   kind "mean"      "<name>: <avg:.4f>"          avg = avg in 1/10000    *)
(*   every other kind is a line no extractor pattern matches.              *)
(***************************************************************************)
Line(kind, num, name, text, avg) ==
    [kind |-> kind, num |-> num, name |-> name, text |-> text, avg |-> avg]

Msg(kind, num, name, text, avg, to_console) ==
    [line |-> Line(kind, num, name, text, avg), to_console |-> to_console]

Plain(kind, num) == Msg(kind, num, "", <<>>, 0, TRUE)

Lines(msgs) == [k \in 1..Len(msgs) |-> msgs[k].line]

\* Mutant of LogFile: the file is written in the else branch of the console
\* test, so it gets only the messages that are not shown on the console.
LogFile_ElseOfConsole(fo, flog, msgs) ==
    IF fo = "open"
    THEN flog \o Lines(SelectSeq(msgs, LAMBDA m : ~m.to_console))
    ELSE flog

\* The file sink after logging msgs in order (lines 89-90): print with
\* flush=True, so what is written is in the file when log returns.
LogFile(fo, flog, msgs) ==
    IF fo = "open" THEN flog \o Lines(msgs) ELSE flog

\* The calls of log() so far.  A traceback is written to the file by
\* traceback.print_exc(file=file_out), not by log().
LogCalls(lg, msgs) ==
    lg \o SelectSeq(msgs, LAMBDA m : m.line.kind # "traceback")

\* The console sink after logging msgs in order (lines 91-92).
LogConsole(con, msgs) ==
    con \o Lines(SelectSeq(msgs, LAMBDA m : m.to_console))

(***************************************************************************)
(* Text of a score list: str() of a Python list prints repr of each item.  *)
(***************************************************************************)
Repr(x) ==
    CASE x.kind = "nan" -> "nan"
      [] x.kind = "none" -> "None"
      [] x.kind = "str" -> "'" \o x.s \o "'"
      [] x.kind = "num" /\ x.n = 0 -> "0.0"
      [] x.kind = "num" /\ 2 * x.n = x.d -> "0.5"
      [] x.kind = "num" /\ x.n = x.d -> "1.0"
      [] OTHER -> "?"

ListText(values) == [k \in 1..Len(values) |-> Repr(values[k])]

\* Mutant of valid_scores: missing entries are kept (and count as 0).
valid_scores_KeepsMissing(scores) == scores

\* [x for x in scores if x is not None and not np.isnan(x)]
valid_scores(scores) ==
    SelectSeq(scores, LAMBDA x : x.kind # "none" /\ x.kind # "nan")

\* np.mean of a non-empty list of numbers, as a fraction.
np_mean(valid) ==
    LET t == SumFrac(valid) IN <<t[1], t[2] * Len(valid)>>

\* f"{avg:.4f}": avg rounded to four decimals, in units of 1/10000
\* (round half to even; the means of the model are exact in binary
\* whenever they fall on a tie).
Fmt4(avg) ==
    LET p == avg[1] * 10000
        q == avg[2]
        fl == p \div q
        r == p % q
    IN  IF 2 * r < q THEN fl
        ELSE IF 2 * r > q THEN fl + 1
        ELSE IF fl % 2 = 0 THEN fl ELSE fl + 1

Min(a, b) == IF a < b THEN a ELSE b

\* The least element of a set of positions, 0 when there is none.
Least(hits) ==
    IF hits = {} THEN 0 ELSE CHOOSE j \in hits : \A h \in hits : j <= h

\* The largest element of a set of naturals, 0 for the empty set.
Max(S) == IF S = {} THEN 0 ELSE CHOOSE x \in S : \A y \in S : y <= x

\* The dictionary's keys in insertion order: every scores dictionary lists
\* the metrics in the order they were passed to the scorer.
KeysInOrder(d) == SelectSeq(metrics, LAMBDA m : m \in DOMAIN d)

\* i//batch_size + 1
BatchNo(idx, b) == idx \div b + 1

(***************************************************************************)
(* Inputs of a run.                                                        *)
(***************************************************************************)
\* --metrics lists tried: in and out of the extractor's field order, metrics
\* the extractor does not know, and a name create_metrics does not know.
RequestedMetricLists ==
    { <<"accuracy">>, <<"completeness">>, <<"coherence">>,
      <<"accuracy", "bleu">>,
      <<"accuracy", "completeness">>, <<"relevance", "accuracy">> }

NotRendered ==
    [rendered |-> FALSE, raised |-> FALSE, summary_data |-> <<>>,
     avg_total |-> <<0, 1>>]

InitRunOf(sizes) ==
    /\ pc = "start"
    /\ metric_names \in RequestedMetricLists
    /\ metrics = create_metrics(metric_names)
    /\ dataset_exists \in BOOLEAN
    /\ total_samples \in 0..MaxSamples
    /\ sample_count \in (0 - 1)..MaxSamples
    /\ batch_size \in sizes
    /\ output_file \in BOOLEAN
    /\ file_out = "none"
    /\ file_log = <<>>
    /\ console = <<>>
    /\ logged = <<>>
    /\ i = 0
    /\ all_results = <<>>
    /\ attempts = <<>>
    /\ completed = FALSE
    /\ summary_results = <<>>
    /\ json_file = [written |-> FALSE, object |-> <<>>]
    /\ ret = [returned |-> FALSE, value |-> <<>>]
    /\ records = [extracted |-> FALSE, raised |-> FALSE, list |-> <<>>]
    /\ html = NotRendered

\* The runs with a batch size as main.py and the command line document it.
InitRun == InitRunOf(1..MaxBatch)

\* The runs without JSON summary and without visualisation.
Init ==
    /\ json_output = FALSE
    /\ visualize = FALSE
    /\ InitRun

\* The runs of an existing dataset scored for accuracy, with a log file, with
\* and without JSON summary and visualisation.
OutputInit ==
    /\ json_output \in BOOLEAN
    /\ visualize \in BOOLEAN
    /\ InitRun
    /\ metric_names = << "accuracy" >>
    /\ dataset_exists
    /\ output_file

(***************************************************************************)
(* evaluate_dataset, lines 79-133: open the log file, write the header,    *)
(* load the dataset, clamp the sample count, build the LLM wrapper.        *)
(***************************************************************************)
HeaderMsgs ==
    << Plain("banner", 0), Plain("time", 0), Plain("dataset", 0),
       Plain("metric_list", 0), Plain("rule", 0) >>

\* Lines 263-272: the run-level handler logs, returns {} and the finally
\* block closes the file.
RunLevelError(fo, msgs) ==
    /\ LET all == msgs \o << Plain("run_error", 0),
                              Msg("traceback", 0, "", <<>>, 0, FALSE) >> IN
       /\ file_log' = LogFile(fo, file_log, all)
       /\ console' = LogConsole(console, all)
       /\ logged' = LogCalls(logged, all)
    /\ ret' = [returned |-> TRUE, value |-> <<>>]
    /\ file_out' = IF fo = "open" THEN "closed" ELSE fo
    /\ pc' = "done"

\* Mutant of ClampedCount: a request beyond the dataset is kept.
ClampedCount_NoUpperClamp(requested, total) ==
    IF requested <= 0 THEN total ELSE requested

\* Lines 113-114: the number of samples to evaluate.
ClampedCount(requested, total) ==
    IF requested <= 0 \/ requested > total THEN total ELSE requested

Setup ==
    /\ pc = "start"
    /\ LET fo == IF output_file THEN "open" ELSE "none" IN
       \E fault \in {"none", "load", "llm"} :
         IF ~dataset_exists THEN
            \* lines 107-109, then the finally block
            /\ fault = "none"
            /\ LET msgs == HeaderMsgs \o << Plain("no_dataset", 0) >> IN
               /\ file_log' = LogFile(fo, file_log, msgs)
               /\ console' = LogConsole(console, msgs)
               /\ logged' = LogCalls(logged, msgs)
            /\ ret' = [returned |-> TRUE, value |-> <<>>]
            /\ file_out' = IF fo = "open" THEN "closed" ELSE fo
            /\ pc' = "done"
            /\ UNCHANGED <<sample_count, i, all_results>>
         ELSE IF fault = "load" THEN
            \* Dataset.load_from_disk raises
            /\ RunLevelError(fo, HeaderMsgs \o << Plain("loading", 0) >>)
            /\ UNCHANGED <<sample_count, i, all_results>>
         ELSE
            LET all == sample_count <= 0 \/ sample_count > total_samples
                n == ClampedCount(sample_count, total_samples)
                count_msgs ==
                    IF all THEN << Plain("evaluate_all", total_samples) >>
                    ELSE << Plain("total", total_samples),
                            Plain("evaluate_n", sample_count) >>
                before == HeaderMsgs \o << Plain("loading", 0) >> \o count_msgs
            IN  /\ sample_count' = n
                /\ IF fault = "llm" THEN
                      \* LangchainCustomLLMWrapper(...) raises
                      /\ RunLevelError(fo, before)
                      /\ UNCHANGED <<i, all_results>>
                   ELSE
                      LET msgs == before \o << Plain("api", 0), Plain("model", 0) >>
                      IN  /\ file_log' = LogFile(fo, file_log, msgs)
                          /\ console' = LogConsole(console, msgs)
                          /\ logged' = LogCalls(logged, msgs)
                          /\ file_out' = fo
                          /\ all_results' = <<>>
                          /\ i' = 0
                          /\ pc' = "loop"
                          /\ UNCHANGED ret
    /\ UNCHANGED <<config, attempts, completed, summary_results, json_file,
                   records, html>>

(***************************************************************************)
(* Lines 136-193: one iteration of the batch loop.                         *)
(***************************************************************************)
\* Mutant of HasNext: the loop stops before a last, shorter batch.
HasNext_SkipsShortBatch(idx) ==
    batch_size > 0 /\ idx + batch_size <= sample_count

\* Mutant of HasNext: a negative step is walked like a positive one.
HasNext_AnyStep(idx) == batch_size # 0 /\ idx < sample_count

\* range(0, sample_count, batch_size) still has the value idx to yield.
HasNext(idx) == batch_size > 0 /\ idx < sample_count

\* What the scoring backend may return for a batch of len samples: one score
\* per sample for every metric passed to it.
RECURSIVE DictsOver(_, _)
DictsOver(names, len) ==
    IF names = {} THEN { <<>> }
    ELSE LET m == CHOOSE x \in names : TRUE IN
         { [key \in DOMAIN rest \cup {m} |->
               IF key = m THEN scores ELSE rest[key]] :
           rest \in DictsOver(names \ {m}, len),
           scores \in [1..len -> ScoreValues(m)] }

ScoresDicts(len) == DictsOver(Range(metrics), len)

\* Mutant of Merge: a metric's list is replaced by the batch's scores.
Merge_Overwrites(results, scores_dict) ==
    [m \in DOMAIN results \cup DOMAIN scores_dict |->
        IF m \in DOMAIN scores_dict THEN scores_dict[m] ELSE results[m]]

\* Mutant of Merge: the batch's scores are put in front of the list.
Merge_Prepends(results, scores_dict) ==
    [m \in DOMAIN results \cup DOMAIN scores_dict |->
        (IF m \in DOMAIN scores_dict THEN scores_dict[m] ELSE <<>>)
        \o (IF m \in DOMAIN results THEN results[m] ELSE <<>>)]

\* Lines 159-162: extend the per-metric lists with the batch's scores.
Merge(results, scores_dict) ==
    [m \in DOMAIN results \cup DOMAIN scores_dict |->
        (IF m \in DOMAIN results THEN results[m] ELSE <<>>)
        \o (IF m \in DOMAIN scores_dict THEN scores_dict[m] ELSE <<>>)]

\* Mutant of ResultBlock: only the valid scores of a metric are listed.
ResultBlock_ValidOnly(k, scores_dict) ==
    << Msg("results", k, "", <<>>, 0, FALSE) >>
    \o [j \in 1..Len(KeysInOrder(scores_dict)) |->
          LET m == KeysInOrder(scores_dict)[j] IN
          Msg("scores", 0, m, ListText(valid_scores(scores_dict[m])), 0, FALSE)]

\* Lines 165-167: the batch's results block, written to the file only.
ResultBlock(k, scores_dict) ==
    << Msg("results", k, "", <<>>, 0, FALSE) >>
    \o [j \in 1..Len(KeysInOrder(scores_dict)) |->
          LET m == KeysInOrder(scores_dict)[j] IN
          Msg("scores", 0, m, ListText(scores_dict[m]), 0, FALSE)]

\* Lines 170-175: the batch's averages of the metrics with a valid score.
BatchAverages(k, scores_dict) ==
    LET shown == SelectSeq(KeysInOrder(scores_dict),
                     LAMBDA m : /\ scores_dict[m] # <<>>
                                /\ valid_scores(scores_dict[m]) # <<>>)
    IN  [j \in 1..Len(shown) |->
           Msg("batch_mean", k, shown[j], <<>>,
               Fmt4(np_mean(valid_scores(scores_dict[shown[j]]))), TRUE)]

\* Mutant of BatchEnd: the end of the batch is not clamped to sample_count.
BatchEnd_NotClamped(idx) == idx + batch_size

\* min(i + batch_size, sample_count), line 137
BatchEnd(idx) == Min(idx + batch_size, sample_count)

\* What is recorded of one attempted batch: its number, the index range
\* selected at line 142, and what the scoring call did.
Attempt(idx, outcome, scores) ==
    [batch |-> BatchNo(idx, batch_size), first |-> idx, last |-> BatchEnd(idx),
     outcome |-> outcome, scores |-> scores]

\* Lines 138-139 and 148.
BatchHead(k) == << Plain("progress", k), Plain("begin", k) >>

\* Lines 187-193.
BatchTail(k) == << Plain("batch_time", k), Plain("total_progress", k) >>

\* Mutant of BatchRaises: the handler also throws the aggregate away.
BatchRaises_ResetsAggregate(idx) ==
    LET k == BatchNo(idx, batch_size)
        msgs == BatchHead(k) \o << Plain("batch_error", k),
                                 Msg("traceback", k, "", <<>>, 0, FALSE),
                                 Plain("continue", k) >>
    IN  /\ file_log' = LogFile(file_out, file_log, msgs)
        /\ console' = LogConsole(console, msgs)
        /\ logged' = LogCalls(logged, msgs)
        /\ attempts' = Append(attempts, Attempt(idx, "raised", <<>>))
        /\ i' = idx + batch_size
        /\ all_results' = <<>>
        /\ UNCHANGED <<pc, ret, file_out>>

\* Mutant of BatchRaises: the exception reaches the run-level handler, which
\* ends the run.
BatchRaises_AbortsRun(idx) ==
    LET k == BatchNo(idx, batch_size) IN
    /\ RunLevelError(file_out, BatchHead(k))
    /\ attempts' = Append(attempts, Attempt(idx, "raised", <<>>))
    /\ i' = idx
    /\ UNCHANGED all_results

\* Mutant of BatchRaises: after a failure the next batch is passed over.
BatchRaises_SkipsNext(idx) ==
    LET k == BatchNo(idx, batch_size)
        msgs == BatchHead(k) \o << Plain("batch_error", k),
                                 Msg("traceback", k, "", <<>>, 0, FALSE),
                                 Plain("continue", k) >>
    IN  /\ file_log' = LogFile(file_out, file_log, msgs)
        /\ console' = LogConsole(console, msgs)
        /\ logged' = LogCalls(logged, msgs)
        /\ attempts' = Append(attempts, Attempt(idx, "raised", <<>>))
        /\ i' = idx + 2 * batch_size
        /\ UNCHANGED <<all_results, pc, ret, file_out>>

\* evaluate(...) raises: the handler of lines 179-185 logs the failure,
\* writes the traceback to the file and continues with the next batch.
BatchRaises(idx) ==
    LET k == BatchNo(idx, batch_size)
        msgs == BatchHead(k) \o << Plain("batch_error", k),
                                 Msg("traceback", k, "", <<>>, 0, FALSE),
                                 Plain("continue", k) >>
    IN  /\ file_log' = LogFile(file_out, file_log, msgs)
        /\ console' = LogConsole(console, msgs)
        /\ logged' = LogCalls(logged, msgs)
        /\ attempts' = Append(attempts, Attempt(idx, "raised", <<>>))
        /\ i' = idx + batch_size
        /\ UNCHANGED <<all_results, pc, ret, file_out>>

\* evaluate(...) returns a result with a scores dictionary: lines 157-175
\* and 187-193.
BatchScored(idx, scores_dict) ==
    LET k == BatchNo(idx, batch_size)
        msgs == BatchHead(k) \o ResultBlock(k, scores_dict)
                \o BatchAverages(k, scores_dict) \o BatchTail(k)
    IN  /\ all_results' = Merge(all_results, scores_dict)
        /\ file_log' = LogFile(file_out, file_log, msgs)
        /\ console' = LogConsole(console, msgs)
        /\ logged' = LogCalls(logged, msgs)
        /\ attempts' = Append(attempts, Attempt(idx, "scored", scores_dict))
        /\ i' = idx + batch_size
        /\ UNCHANGED <<pc, ret, file_out>>

\* The result has no _scores_dict attribute: lines 176-177 and 187-193.
BatchNoDict(idx) ==
    LET k == BatchNo(idx, batch_size)
        msgs == BatchHead(k) \o << Plain("no_scores_dict", k) >> \o BatchTail(k)
    IN  /\ file_log' = LogFile(file_out, file_log, msgs)
        /\ console' = LogConsole(console, msgs)
        /\ logged' = LogCalls(logged, msgs)
        /\ attempts' = Append(attempts, Attempt(idx, "no_dict", <<>>))
        /\ i' = idx + batch_size
        /\ UNCHANGED <<all_results, pc, ret, file_out>>

\* A list of scores holds an entry that is neither a number nor a missing
\* marker: np.isnan raises TypeError on it.
HasText(scores) == \E j \in 1..Len(scores) : scores[j].kind = "str"

\* Position in keys of the first metric whose list np.isnan rejects, 0 when
\* there is none.
FirstRejected(keys, d) == Least({j \in 1..Len(keys) : HasText(d[keys[j]])})

\* A backend that does not keep to numbers: the scores dictionaries of len
\* samples in which some score is a text.
TextScore == Str("what")

RECURSIVE AnyDictsOver(_, _)
AnyDictsOver(names, len) ==
    IF names = {} THEN { <<>> }
    ELSE LET m == CHOOSE x \in names : TRUE IN
         { [key \in DOMAIN rest \cup {m} |->
               IF key = m THEN scores ELSE rest[key]] :
           rest \in AnyDictsOver(names \ {m}, len),
           scores \in [1..len -> ScoreValues(m) \cup {TextScore}] }

TextScoresDicts(len) ==
    {d \in AnyDictsOver(Range(metrics), len) : \E m \in DOMAIN d : HasText(d[m])}

\* evaluate(...) returns a scores dictionary and an exception is raised
\* later in the try block: the scores are merged (lines 159-162), the
\* results block is logged (165-167), the averages are logged up to the
\* metric on which np.isnan raises (170-175), and the handler of lines
\* 179-185 logs the failure and continues.
BatchScoredThenRaises(idx, scores_dict) ==
    LET k == BatchNo(idx, batch_size)
        keys == KeysInOrder(scores_dict)
        before == {keys[j] : j \in 1..(FirstRejected(keys, scores_dict) - 1)}
        msgs == BatchHead(k) \o ResultBlock(k, scores_dict)
                \o BatchAverages(k, [m \in before |-> scores_dict[m]])
                \o << Plain("batch_error", k),
                      Msg("traceback", k, "", <<>>, 0, FALSE),
                      Plain("continue", k) >>
    IN  /\ all_results' = Merge(all_results, scores_dict)
        /\ file_log' = LogFile(file_out, file_log, msgs)
        /\ console' = LogConsole(console, msgs)
        /\ logged' = LogCalls(logged, msgs)
        /\ attempts' = Append(attempts,
                              Attempt(idx, "raised_late", scores_dict))
        /\ i' = idx + batch_size
        /\ UNCHANGED <<pc, ret, file_out>>

RunBatchText ==
    /\ pc = "loop"
    /\ HasNext(i)
    /\ \E scores_dict \in TextScoresDicts(BatchEnd(i) - i) :
          BatchScoredThenRaises(i, scores_dict)
    /\ UNCHANGED <<config, sample_count, completed, summary_results,
                   json_file, records, html>>

RunBatch ==
    /\ pc = "loop"
    /\ HasNext(i)
    /\ \/ BatchRaises(i)
       \/ \E scores_dict \in ScoresDicts(BatchEnd(i) - i) :
             BatchScored(i, scores_dict)
       \/ BatchNoDict(i)
    /\ UNCHANGED <<config, sample_count, completed, summary_results,
                   json_file, records, html>>

(***************************************************************************)
(* Lines 195-272: completion, summary, JSON summary, visualisation,        *)
(* return and the finally block.                                           *)
(***************************************************************************)
\* Lines 197-199: the completion lines logged before the per-sample time.
CompletionMsgs ==
    << Plain("complete", 0), Plain("total_time", 0),
       Plain("evaluated", sample_count) >>

\* Mutant of Summary: a metric without a valid score is reported as zero.
Summary_ReportsZero(results) ==
    [m \in DOMAIN results |->
        IF valid_scores(results[m]) # <<>>
        THEN np_mean(valid_scores(results[m])) ELSE <<0, 1>>]

\* Lines 213-220: the mean of every metric that has a valid score.
Summary(results) ==
    [m \in {x \in DOMAIN results : valid_scores(results[x]) # <<>>} |->
        np_mean(valid_scores(results[m]))]

\* Lines 205-221: the summary section of the log.
SummaryMsgs(results) ==
    IF DOMAIN results = {} THEN <<>>
    ELSE
      LET keys == KeysInOrder(results) IN
      << Plain("summary", 0), Msg("raw_header", 0, "", <<>>, 0, FALSE) >>
      \o [j \in 1..Len(keys) |->
            Msg("scores", 0, keys[j], ListText(results[keys[j]]), 0, FALSE)]
      \o << Plain("mean_header", 0) >>
      \o [j \in 1..Len(keys) |->
            IF valid_scores(results[keys[j]]) # <<>>
            THEN Msg("mean", 0, keys[j], <<>>,
                     Fmt4(np_mean(valid_scores(results[keys[j]]))), TRUE)
            ELSE Msg("no_valid", 0, keys[j], <<>>, 0, TRUE)]
      \o << Plain("rule", 0) >>

\* Lines 205-214 when np.isnan raises on the list of a metric: the summary
\* section up to the means of the metrics before it.
SummaryMsgsUntilRaise(results) ==
    LET keys == KeysInOrder(results)
        stop == FirstRejected(keys, results)
    IN  << Plain("summary", 0), Msg("raw_header", 0, "", <<>>, 0, FALSE) >>
        \o [j \in 1..Len(keys) |->
              Msg("scores", 0, keys[j], ListText(results[keys[j]]), 0, FALSE)]
        \o << Plain("mean_header", 0) >>
        \o [j \in 1..(stop - 1) |->
              IF valid_scores(results[keys[j]]) # <<>>
              THEN Msg("mean", 0, keys[j], <<>>,
                       Fmt4(np_mean(valid_scores(results[keys[j]]))), TRUE)
              ELSE Msg("no_valid", 0, keys[j], <<>>, 0, TRUE)]

\* Mutant of FullResults: the evaluated count is that of the scored samples.
FullResults_CountsScored(summary) ==
    [ total_samples |-> total_samples,
      evaluated_samples |->
          Max({Len(all_results[m]) : m \in DOMAIN all_results}),
      metrics |-> metrics,
      summary |-> summary,
      details |-> all_results ]

\* Lines 226-238: the object written as the JSON summary.
FullResults(summary) ==
    [ total_samples |-> total_samples,
      evaluated_samples |-> sample_count,
      metrics |-> metrics,
      summary |-> summary,
      details |-> all_results ]

\* What can go wrong while the JSON summary is written (lines 239-242):
\* os.makedirs or open raises OSError, json.dump raises TypeError or
\* ValueError.
JsonFaults == {"none", "makedirs", "open", "dump"}

\* Mutant of JsonHandlerCatches: the handler is "except OSError".
JsonHandlerCatches_OnlyOSError(fault) == fault \in {"makedirs", "open"}

\* "except Exception" (line 244) catches every one of them.
JsonHandlerCatches(fault) == fault \in {"makedirs", "open", "dump"}

Finish ==
    /\ pc = "loop"
    /\ ~HasNext(i)
    /\ IF batch_size = 0 THEN
          \* range() with step 0 raises ValueError at line 136
          /\ RunLevelError(file_out, <<>>)
          /\ UNCHANGED <<completed, summary_results, json_file>>
       ELSE IF sample_count = 0 THEN
          \* line 200 divides by sample_count: ZeroDivisionError
          /\ completed' = TRUE
          /\ RunLevelError(file_out, CompletionMsgs)
          /\ UNCHANGED <<summary_results, json_file>>
       ELSE IF \E m \in DOMAIN all_results : HasText(all_results[m]) THEN
          \* line 214: np.isnan raises TypeError on a text score
          /\ completed' = TRUE
          /\ RunLevelError(file_out,
                CompletionMsgs
                \o << Plain("per_sample", 0), Plain("rule", 0) >>
                \o SummaryMsgsUntilRaise(all_results))
          /\ UNCHANGED <<summary_results, json_file>>
       ELSE
          \E json_fault \in JsonFaults :
            LET summary == Summary(all_results)
                json_ok == json_fault = "none"
                json_msgs ==
                    IF ~json_output THEN <<>>
                    ELSE << Plain("json_saving", 0),
                            Plain(IF json_ok THEN "json_saved"
                                  ELSE "json_error", 0) >>
                \* src.visualize defines no create_visualization: the import
                \* at line 251 raises and line 259 logs it
                viz_msgs ==
                    IF ~visualize THEN <<>>
                    ELSE << Plain("viz_start", 0), Plain("viz_error", 0) >>
                msgs == CompletionMsgs
                        \o << Plain("per_sample", 0), Plain("rule", 0) >>
                        \o SummaryMsgs(all_results) \o json_msgs \o viz_msgs
            IN  /\ json_output \/ json_ok
                /\ completed' = TRUE
                /\ summary_results' = summary
                /\ IF json_output /\ ~json_ok /\ ~JsonHandlerCatches(json_fault)
                   THEN
                      \* the exception leaves the try of lines 239-245 and
                      \* reaches the run-level handler
                      /\ json_file' = json_file
                      /\ RunLevelError(file_out,
                            CompletionMsgs
                            \o << Plain("per_sample", 0), Plain("rule", 0) >>
                            \o SummaryMsgs(all_results)
                            \o << Plain("json_saving", 0) >>)
                   ELSE
                      /\ json_file' = IF json_output /\ json_ok
                                      THEN [written |-> TRUE,
                                            object |-> FullResults(summary)]
                                      ELSE json_file
                      /\ file_log' = LogFile(file_out, file_log, msgs)
                      /\ console' = LogConsole(console, msgs)
                      /\ logged' = LogCalls(logged, msgs)
                      /\ ret' = [returned |-> TRUE, value |-> summary]
                      /\ file_out' = IF file_out = "open" THEN "closed"
                                     ELSE file_out
                      /\ pc' = "done"
    /\ UNCHANGED <<config, sample_count, i, all_results, attempts, records,
                   html>>

(***************************************************************************)
(* safe_eval (visualize.py lines 141-163) on the items of a list literal.  *)
(* A text is the sequence of its items; NoText is a group that did not     *)
(* take part in the match (None).                                          *)
(***************************************************************************)
NoText == << "<None>" >>

Fail == [kind |-> "fail", n |-> 0, d |-> 1, s |-> ""]

\* s.replace('nan', 'np.nan') on one item: every occurrence of the letters
\* "nan" is rewritten, inside quoted text as well.
ReplaceNan(item) ==
    CASE item = "nan" -> "np.nan"
      [] item = "'banana'" -> "'banp.nana'"
      [] OTHER -> item

\* eval() of one item of the list.
PyEvalItem(item) ==
    CASE item = "np.nan" -> NaN
      [] item = "None" -> NoneV
      [] item = "0.0" -> Num(0, 1)
      [] item = "0.5" -> Num(1, 2)
      [] item = "1.0" -> Num(1, 1)
      [] item = "'what'" -> Str("what")
      [] item = "'banp.nana'" -> Str("banp.nana")
      [] OTHER -> Fail

\* json.loads() of one item, after s.replace("'", "\"").
JsonItem(item) ==
    CASE item = "0.0" -> Num(0, 1)
      [] item = "0.5" -> Num(1, 2)
      [] item = "1.0" -> Num(1, 1)
      [] item = "null" -> NoneV
      [] item = "'what'" -> Str("what")
      [] item = "'banp.nana'" -> Str("banp.nana")
      [] OTHER -> Fail

\* What a call stands for when an exception leaves it.
Raise == << [kind |-> "raise", n |-> 0, d |-> 1, s |-> ""] >>

safe_eval(text) ==
    IF text = NoText THEN <<>>
    ELSE
      LET replaced == [k \in 1..Len(text) |-> ReplaceNan(text[k])]
          py == [k \in 1..Len(text) |-> PyEvalItem(replaced[k])]
          js == [k \in 1..Len(text) |-> JsonItem(replaced[k])]
      IN  IF \A k \in 1..Len(text) : py[k] # Fail THEN py
          ELSE IF \A k \in 1..Len(text) : js[k] # Fail THEN js
          ELSE <<>>

(***************************************************************************)
(* parse_evaluation_file (visualize.py lines 9-139).  The content is the   *)
(* sequence of lines of the text log.                                      *)
(***************************************************************************)
\* The groups of expanded_pattern, in the order the pattern lists them
\* (groups 2..13, line 26 and field_mapping lines 78-91).
FieldOrder ==
    << "user_input", "retrieved_contexts", "response", "reference",
       "context_precision", "answer_relevancy", "faithfulness",
       "context_recall", "context_entities_recall",
       "accuracy", "completeness", "relevance" >>

\* The metrics of the single-metric patterns (lines 41-50), in dictionary
\* order, and of single_result_pattern (line 128).
ScanMetrics ==
    << "accuracy", "completeness", "relevance", "context_precision",
       "answer_relevancy", "faithfulness", "context_recall",
       "context_entities_recall" >>

IsMarker(line) == line.kind = "results"

IsList(line, name) == line.kind = "scores" /\ line.name = name

\* First line at or after from that is a batch marker, or 0.
FirstMarkerFrom(content, from) ==
    Least({j \in from..Len(content) : IsMarker(content[j])})

\* First line at or after from that is "name: [...]", or 0.
FirstListFrom(content, from, name) ==
    Least({j \in from..Len(content) : IsList(content[j], name)})

\* One match of expanded_pattern whose marker is line p.  Every group is
\* optional and is tried in pattern order: ".*?name: (\[.*?\])" with DOTALL
\* takes the first "name: [...]" after the current position, wherever in the
\* rest of the text it is, and the match goes on from its end; a group with
\* no occurrence left is skipped.
RECURSIVE MatchGroups(_, _, _, _)
MatchGroups(content, g, cur, caps) ==
    IF g > Len(FieldOrder) THEN [caps |-> caps, end |-> cur]
    ELSE
      LET name == FieldOrder[g]
          j == FirstListFrom(content, cur, name)
      IN  IF j = 0
          THEN MatchGroups(content, g + 1, cur,
                           [caps EXCEPT ![name] = NoText])
          ELSE MatchGroups(content, g + 1, j + 1,
                           [caps EXCEPT ![name] = content[j].text])

ExpandedMatch(content, p) ==
    LET m == MatchGroups(content, 1, p + 1,
                         [name \in Range(FieldOrder) |-> NoText])
    IN  [batch_num |-> content[p].num, caps |-> m.caps, end |-> m.end]

\* re.finditer(expanded_pattern, content, re.DOTALL): the matches from left
\* to right, each search starting where the previous match ended.
RECURSIVE ExpandedMatches(_, _)
ExpandedMatches(content, from) ==
    LET p == FirstMarkerFrom(content, from)
    IN  IF p = 0 THEN <<>>
        ELSE LET m == ExpandedMatch(content, p)
             IN  << m >> \o ExpandedMatches(content, m.end)

\* re.finditer(batch_pattern, content): the marker line directly followed by
\* the accuracy, completeness and relevance lines (line 34).
\* Mutant of BasicMatches: the reduced pattern without the marker line.
BasicMatches_NoMarker(content) ==
    {p \in 0..Len(content) :
       /\ p + 3 <= Len(content)
       /\ IsList(content[p + 1], "accuracy")
       /\ IsList(content[p + 2], "completeness")
       /\ IsList(content[p + 3], "relevance")}

BasicMatches(content) ==
    LET starts == {p \in 1..Len(content) :
                     /\ IsMarker(content[p])
                     /\ p + 3 <= Len(content)
                     /\ IsList(content[p + 1], "accuracy")
                     /\ IsList(content[p + 2], "completeness")
                     /\ IsList(content[p + 3], "relevance")}
    IN  starts

\* Mutant of BuildRecords: the lists are zipped up to the shortest one.
BuildRecords_ShortestList(batch, fields) ==
    LET lens == {Len(fields[f]) : f \in DOMAIN fields}
        min_len == IF lens = {} THEN 0
                   ELSE CHOOSE x \in lens : \A y \in lens : x <= y
    IN  [idx \in 1..min_len |->
           [batch |-> batch, index |-> idx - 1,
            fields |-> [f \in DOMAIN fields |-> fields[f][idx]]]]

\* Lines 63-71 and 107-123: one record per index up to the longest list,
\* shorter lists padded with nan.
BuildRecords(batch, fields) ==
    LET max_len == Max({Len(fields[f]) : f \in DOMAIN fields})
    IN  [idx \in 1..max_len |->
           [batch |-> batch, index |-> idx - 1,
            fields |-> [f \in DOMAIN fields |->
                          IF idx <= Len(fields[f]) THEN fields[f][idx]
                          ELSE NaN]]]

\* Lines 94-104: the fields of one match; when accuracy is empty, accuracy,
\* completeness and relevance are taken from groups 2, 3 and 4.
MatchFieldsOf(m) ==
    LET fields == [name \in Range(FieldOrder) |-> safe_eval(m.caps[name])]
    IN  IF fields["accuracy"] = <<>>
        THEN [fields EXCEPT
                !["accuracy"] = safe_eval(m.caps[FieldOrder[1]]),
                !["completeness"] = safe_eval(m.caps[FieldOrder[2]]),
                !["relevance"] = safe_eval(m.caps[FieldOrder[3]])]
        ELSE fields

RECURSIVE RecordsOfMatches(_)
RecordsOfMatches(ms) ==
    IF ms = <<>> THEN <<>>
    ELSE BuildRecords(Head(ms).batch_num, MatchFieldsOf(Head(ms)))
         \o RecordsOfMatches(Tail(ms))

\* Lines 52-59: re.search of every single-metric pattern: the first
\* "name: [...]" of the text, if any.
\* A metric whose list makes safe_eval raise is left out (lines 57-58).
\* Mutant of ScanResults: the last list of a metric is taken, not the first.
ScanResults_LastOccurrence(content) ==
    LET last(name) == Max({j \in 1..Len(content) : IsList(content[j], name)})
        found == {name \in Range(ScanMetrics) : last(name) # 0}
    IN  [name \in found |-> safe_eval(content[last(name)].text)]

ScanResults(content) ==
    LET found == {name \in Range(ScanMetrics) :
                    /\ FirstListFrom(content, 1, name) # 0
                    /\ safe_eval(content[FirstListFrom(content, 1, name)].text)
                          # Raise}
    IN  [name \in found |->
           safe_eval(content[FirstListFrom(content, 1, name)].text)]

\* Lines 126-137: re.findall of "metric: number"; one record, a later
\* occurrence of a metric overwriting an earlier one.  The number is a run
\* of digits and dots; when float() rejects it the value is nan.  BadNumber
\* stands for such a run in the avg of a line.
BadNumber == 0 - 1

IsBare(line) == line.kind = "mean" /\ line.name \in Range(ScanMetrics)

\* Mutant of BareRecord: only the metric of the first bare line is kept.
BareRecord_FirstMetricOnly(content) ==
    LET hits == {j \in 1..Len(content) : IsBare(content[j])}
    IN  IF hits = {} THEN <<>>
        ELSE << [batch |-> 1, index |-> 0,
                 fields |-> [name \in {content[Least(hits)].name} |->
                               IF content[Least(hits)].avg = BadNumber THEN NaN
                               ELSE Num(content[Least(hits)].avg, 10000)]] >>

BareRecord(content) ==
    LET hits == {j \in 1..Len(content) : IsBare(content[j])}
        names == {content[j].name : j \in hits}
        last(name) == Max({j \in hits : content[j].name = name})
    IN  IF hits = {} THEN <<>>
        ELSE << [batch |-> 1, index |-> 0,
                 fields |-> [name \in names |->
                               IF content[last(name)].avg = BadNumber THEN NaN
                               ELSE Num(content[last(name)].avg, 10000)]] >>

\* Mutant of parse_evaluation_file: once the full-schema pattern has matched
\* its records are the result, even when there are none.
parse_evaluation_file_FirstMatchWins(content) ==
    LET expanded == ExpandedMatches(content, 1)
    IN  IF expanded # <<>> THEN RecordsOfMatches(expanded)
        ELSE LET results == ScanResults(content)
             IN  IF DOMAIN results # {} /\ BuildRecords(1, results) # <<>>
                 THEN BuildRecords(1, results)
                 ELSE BareRecord(content)

parse_evaluation_file(content) ==
    LET expanded == ExpandedMatches(content, 1)
        batch_results ==
            IF expanded = <<>> THEN
               IF BasicMatches(content) = {} THEN
                  LET results == ScanResults(content)
                  IN  IF DOMAIN results # {} THEN BuildRecords(1, results)
                      ELSE <<>>
               ELSE <<>>
            ELSE RecordsOfMatches(expanded)
    IN  IF batch_results = <<>> THEN BareRecord(content) ELSE batch_results

\* A batch number of more digits than int() converts (4300 by default):
\* int(batch_num) at line 112 raises ValueError.
OverlongNumber == 0 - 2

\* An exception leaves parse_evaluation_file, whose lines 75-123 no handler
\* surrounds: a safe_eval call raises, or int(batch_num) does when the first
\* record of a block with an overlong batch number is built.
ParseRaises(content) ==
    LET expanded == ExpandedMatches(content, 1)
    IN  \E k \in 1..Len(expanded) :
           \/ \E name \in Range(FieldOrder) :
                 safe_eval(expanded[k].caps[name]) = Raise
           \/ /\ expanded[k].batch_num = OverlongNumber
              /\ BuildRecords(OverlongNumber, MatchFieldsOf(expanded[k]))
                    # <<>>

\* visualize_evaluation (lines 452-453) run on the text log file of a
\* finished run.
Extract ==
    /\ pc = "done"
    /\ file_out = "closed"
    /\ ~records.extracted
    /\ LET raises == ParseRaises(file_log)
       IN  records' = [extracted |-> TRUE,
                       raised |-> raises,
                       list |-> IF raises THEN <<>>
                                ELSE parse_evaluation_file(file_log)]
    /\ UNCHANGED <<pc, config, sample_count, file_out, file_log, console,
                   logged, i, all_results, attempts, completed,
                   summary_results, json_file, ret, html>>

(***************************************************************************)
(* create_html_visualization (visualize.py lines 183-214): the figures of  *)
(* the report.  Means are exact fractions in lowest terms.                 *)
(***************************************************************************)
RECURSIVE GCD(_, _)
GCD(a, b) == IF b = 0 THEN a ELSE GCD(b, a % b)

Reduce(f) ==
    IF f[1] = 0 THEN <<0, 1>>
    ELSE <<f[1] \div GCD(f[1], f[2]), f[2] \div GCD(f[1], f[2])>>

RAdd(a, b) == Reduce(FracAdd(a, b))

\* Line 196.
content_columns == {"user_input", "retrieved_contexts", "response", "reference"}

\* The columns of pd.DataFrame(results) but batch and index: every key of
\* some record.
Columns(results) == UNION {DOMAIN results[k].fields : k \in 1..Len(results)}

\* Line 197.
metric_columns(results) == Columns(results) \ content_columns

\* A column of the frame: a record without the key has NaN there.
ColumnOf(results, c) ==
    [k \in 1..Len(results) |->
        IF c \in DOMAIN results[k].fields THEN results[k].fields[c] ELSE NaN]

RECURSIVE RSum(_)
RSum(xs) ==
    IF xs = <<>> THEN <<0, 1>>
    ELSE RAdd(<<Head(xs).n, Head(xs).d>>, RSum(Tail(xs)))

\* Mutant of ColumnMean: missing values are filled with 0 before the mean.
ColumnMean_MissingAsZero(col) ==
    LET t == RSum(valid_scores(col))
    IN  Num(Reduce(<<t[1], t[2] * Len(col)>>)[1],
            Reduce(<<t[1], t[2] * Len(col)>>)[2])

\* df[metric].mean() (line 203): NaN and None are skipped; nan when nothing
\* is left.
ColumnMean(col) ==
    LET valid == valid_scores(col)
        t == RSum(valid)
    IN  IF valid = <<>> THEN NaN
        ELSE Num(Reduce(<<t[1], t[2] * Len(valid)>>)[1],
                 Reduce(<<t[1], t[2] * Len(valid)>>)[2])

\* df[score_columns].fillna(0).sum(axis=1) for one record (line 208).
RECURSIVE total_score(_, _)
total_score(fields, cols) ==
    IF cols = {} THEN <<0, 1>>
    ELSE LET c == CHOOSE x \in cols : TRUE
             v == IF c \in DOMAIN fields /\ fields[c].kind = "num"
                  THEN <<fields[c].n, fields[c].d>> ELSE <<0, 1>>
         IN  RAdd(v, total_score(fields, cols \ {c}))

RECURSIVE SumTotals(_, _)
SumTotals(results, cols) ==
    IF results = <<>> THEN <<0, 1>>
    ELSE RAdd(total_score(Head(results).fields, cols),
              SumTotals(Tail(results), cols))

\* Lines 206-214: df['total_score'].mean() / metrics_count.
avg_total(results) ==
    LET cols == metric_columns(results)
        t == SumTotals(results, cols)
    IN  IF cols = {} THEN <<0, 1>>
        ELSE Reduce(<<t[1], t[2] * Len(results) * Cardinality(cols)>>)

\* A metric column holds text: its mean() raises TypeError.
HasTextColumn(results) ==
    \E c \in metric_columns(results) :
       \E k \in 1..Len(results) : ColumnOf(results, c)[k].kind = "str"

\* visualize_evaluation, lines 455-462: the report is built from a non-empty
\* list of records.
Render ==
    /\ pc = "done"
    /\ records.extracted
    /\ ~records.raised
    /\ records.list # <<>>
    /\ ~html.rendered
    /\ html' =
          IF HasTextColumn(records.list)
          THEN [NotRendered EXCEPT !.rendered = TRUE, !.raised = TRUE]
          ELSE [rendered |-> TRUE, raised |-> FALSE,
                summary_data |-> [m \in metric_columns(records.list) |->
                                    ColumnMean(ColumnOf(records.list, m))],
                avg_total |-> avg_total(records.list)]
    /\ UNCHANGED <<pc, config, sample_count, file_out, file_log, console,
                   logged, i, all_results, attempts, completed,
                   summary_results, json_file, ret, records>>

\* A KeyboardInterrupt reaches the run.  It is no Exception: no handler of
\* evaluate_dataset catches it and it leaves the call, which returns
\* nothing.  Raised inside the try statement of lines 94-272 it runs the
\* finally block, which closes the log file; raised after open() has
\* returned at line 85 and before the try statement is entered at line 94 it
\* runs no cleanup.
InterruptPoints == {"before_open", "after_open", "in_header", "in_scoring"}

Interrupt ==
    /\ \E at \in InterruptPoints :
          LET fo == IF output_file THEN "open" ELSE "none"
              closed(f) == IF f = "open" THEN "closed" ELSE f
          IN  CASE at = "before_open" ->
                     /\ pc = "start"
                     /\ UNCHANGED <<file_out, file_log, console, logged>>
                [] at = "after_open" ->
                     /\ pc = "start"
                     /\ output_file
                     /\ file_out' = "open"
                     /\ UNCHANGED <<file_log, console, logged>>
                [] at = "in_header" ->
                     /\ pc = "start"
                     /\ file_log' = LogFile(fo, file_log, HeaderMsgs)
                     /\ console' = LogConsole(console, HeaderMsgs)
                     /\ logged' = LogCalls(logged, HeaderMsgs)
                     /\ file_out' = closed(fo)
                [] at = "in_scoring" ->
                     /\ pc = "loop"
                     /\ HasNext(i)
                     /\ LET msgs == BatchHead(BatchNo(i, batch_size)) IN
                        /\ file_log' = LogFile(file_out, file_log, msgs)
                        /\ console' = LogConsole(console, msgs)
                        /\ logged' = LogCalls(logged, msgs)
                     /\ file_out' = closed(file_out)
    /\ pc' = "done"
    /\ UNCHANGED <<config, sample_count, i, all_results, attempts, completed,
                   summary_results, json_file, ret, records, html>>

Next == Setup \/ RunBatch \/ Finish \/ Extract \/ Render

Spec == Init /\ [][Next]_vars

(***************************************************************************)
(* The extractor on its own: parse_evaluation_file applied to a text that  *)
(* need not come from a run.                                               *)
(***************************************************************************)
\* The lines a text is made of: batch markers (one with an overlong batch
\* number), list-literal lines of content
\* and metric fields (one of them not parseable, one of a metric the
\* extractor does not know, two different ones of accuracy), bare
\* "metric: number" lines and a line that
\* no pattern matches.  One bare line carries digits and dots that are no
\* number ("relevance: 1.2.3").
TextLines ==
    { Line("results", 1, "", <<>>, 0),
      Line("results", 2, "", <<>>, 0),
      Line("results", OverlongNumber, "", <<>>, 0),
      Line("scores", 0, "user_input", << "'what'", "'banana'" >>, 0),
      Line("scores", 0, "faithfulness", << "1.0", "oops" >>, 0),
      Line("scores", 0, "accuracy", << "1.0", "nan" >>, 0),
      Line("scores", 0, "accuracy", << "0.0" >>, 0),
      Line("scores", 0, "completeness", << "0.0", "None" >>, 0),
      Line("scores", 0, "relevance", << "0.5" >>, 0),
      Line("scores", 0, "coherence", << "0.0" >>, 0),
      Line("mean", 0, "accuracy", <<>>, 7500),
      Line("mean", 0, "accuracy", <<>>, 2500),
      Line("mean", 0, "completeness", <<>>, 5000),
      Line("mean", 0, "relevance", <<>>, BadNumber),
      Line("rule", 0, "", <<>>, 0) }

Texts == UNION { [1..len -> TextLines] : len \in 0..MaxLines }

TextInitOf(texts) ==
    /\ pc = "done"
    /\ file_log \in texts
    /\ metric_names = <<>>
    /\ metrics = <<>>
    /\ dataset_exists = TRUE
    /\ total_samples = 0
    /\ sample_count = 0
    /\ batch_size = 1
    /\ output_file = TRUE
    /\ json_output = FALSE
    /\ visualize = FALSE
    /\ file_out = "closed"
    /\ console = <<>>
    /\ logged = <<>>
    /\ i = 0
    /\ all_results = <<>>
    /\ attempts = <<>>
    /\ completed = FALSE
    /\ summary_results = <<>>
    /\ json_file = [written |-> FALSE, object |-> <<>>]
    /\ ret = [returned |-> FALSE, value |-> <<>>]
    /\ records = [extracted |-> FALSE, raised |-> FALSE, list |-> <<>>]
    /\ html = NotRendered

TextInit == TextInitOf(Texts)

ExtractSpec == TextInit /\ [][Extract \/ Render]_vars

\* The texts made of the lines of a results block as evaluate_dataset writes
\* it for accuracy, completeness and relevance (lines 165-167), and of a line
\* that no pattern matches.
BlockLines ==
    { Line("results", 1, "", <<>>, 0),
      Line("scores", 0, "accuracy", << "1.0", "nan" >>, 0),
      Line("scores", 0, "completeness", << "0.0", "None" >>, 0),
      Line("scores", 0, "relevance", << "0.5" >>, 0),
      Line("rule", 0, "", <<>>, 0) }

BlockTexts == UNION { [1..len -> BlockLines] : len \in 0..MaxBlockLines }

BlockTextInit == TextInitOf(BlockTexts)

BlockTextSpec == BlockTextInit /\ [][Extract \/ Render]_vars

\* The run is one sequential thread: while a step of it is possible (every
\* scoring call returns or raises) the next step is taken.
\* The runs here are those of an existing dataset scored for accuracy: what
\* is asked of them is which steps are taken, whatever the scores are.
FairInit == Init /\ metric_names = << "accuracy" >> /\ dataset_exists

OutputSpec == OutputInit /\ [][Next]_vars

\* The runs of an existing dataset with a log file, scored for accuracy and
\* completeness by a backend that may return a text as a score.
TextScoreInit ==
    /\ Init
    /\ metric_names = << "accuracy", "completeness" >>
    /\ dataset_exists
    /\ output_file

TextScoreNext == Next \/ RunBatchText

\* The runs of an existing dataset scored for accuracy with a batch size
\* around zero: --batch-size is an unchecked int.
BatchSizeInit ==
    /\ json_output = FALSE
    /\ visualize = FALSE
    /\ InitRunOf((0 - MaxBatch)..1)
    /\ metric_names = << "accuracy" >>
    /\ dataset_exists

BatchSizeSpec == BatchSizeInit /\ [][Next]_vars

\* The runs that an interruption may end.
InterruptNext == Next \/ Interrupt

InterruptSpec == Init /\ [][InterruptNext]_vars

TextScoreSpec == TextScoreInit /\ [][TextScoreNext]_vars


FairSpec ==
    FairInit /\ [][Next]_vars /\ WF_vars(Setup \/ RunBatch \/ Finish)

(***************************************************************************)
(* Properties of the batch evaluation engine.                              *)
(***************************************************************************)
HasLine(log, kind, num) ==
    \E j \in 1..Len(log) : log[j].kind = kind /\ log[j].num = num

\* The run went through the completion step and returned.
FullRun == pc = "done" /\ completed /\ ret.returned

\* A batch fails when its scoring call yields no scores dictionary: it
\* raised, or its result carries none.
Failed(a) == a.outcome # "scored"

FailedBatches == {k \in 1..Len(attempts) : Failed(attempts[k])}

AggLen(m) == IF m \in DOMAIN all_results THEN Len(all_results[m]) ELSE 0

\* C1: when the scoring call of batch k raises, the step that handles it
\* leaves the aggregate exactly as it was before the batch started (no score
\* added, none removed or altered) and logs a failure entry naming batch k,
\* on the console and, when a log file is open, in the file.
C1_RaisedBatchLeavesAggregate ==
    [][ ( /\ Len(attempts') = Len(attempts) + 1
          /\ attempts'[Len(attempts')].outcome = "raised" )
        => LET k == attempts'[Len(attempts')].batch IN
           /\ all_results' = all_results
           /\ \E j \in (Len(console) + 1)..Len(console') :
                 console'[j].kind = "batch_error" /\ console'[j].num = k
           /\ file_out = "open" =>
                \E j \in (Len(file_log) + 1)..Len(file_log') :
                   file_log'[j].kind = "batch_error" /\ file_log'[j].num = k
      ]_vars

\* C1 witness: a batch has raised after an earlier batch had committed
\* scores, and those scores are still in the aggregate.
C1_Witness ==
    \E k \in 2..Len(attempts) :
       /\ attempts[k].outcome = "raised"
       /\ attempts[k - 1].outcome = "scored"
       /\ \E m \in DOMAIN all_results : all_results[m] # <<>>

\* C2: if exactly one batch fails, whichever it is, then after the run every
\* aggregated per-metric list is shorter than the evaluated sample count by
\* exactly that batch's sample count, every metric scored has such a list,
\* and the run has reached completion and returned its summary.
C2_OneFailedBatchShortens ==
    (pc = "done" /\ sample_count >= 1 /\ Cardinality(FailedBatches) = 1) =>
       LET k == CHOOSE x \in FailedBatches : TRUE
           size == attempts[k].last - attempts[k].first
       IN  /\ \A m \in DOMAIN all_results :
                 Len(all_results[m]) = sample_count - size
           /\ Len(attempts) >= 2 => DOMAIN all_results = Range(metrics)
           /\ FullRun
           /\ ret.value = summary_results
           /\ DOMAIN all_results # {} => HasLine(console, "summary", 0)

\* C2 witness: a finished run of three batches whose first batch failed.
C2_Witness ==
    /\ pc = "done"
    /\ Len(attempts) = 3
    /\ FailedBatches = {1}
    /\ attempts[1].outcome = "raised"

\* The scores returned for metric m by the scored batches among the first k
\* attempts, concatenated in increasing batch number.
RECURSIVE ConcatScored(_, _)
ConcatScored(m, k) ==
    IF k = 0 THEN <<>>
    ELSE ConcatScored(m, k - 1)
         \o (IF attempts[k].outcome = "scored" /\ m \in DOMAIN attempts[k].scores
             THEN attempts[k].scores[m] ELSE <<>>)

\* C3: at every point of a run each metric's aggregated list is the
\* concatenation, in increasing batch number, of the score lists returned for
\* it by the batches that succeeded, in the order returned (missing markers
\* included), and every batch that raised has a failure entry in the log.
C3_AggregateIsConcatenation ==
    /\ DOMAIN all_results \subseteq Range(metrics)
    /\ \A m \in Range(metrics) :
          (IF m \in DOMAIN all_results THEN all_results[m] ELSE <<>>)
             = ConcatScored(m, Len(attempts))
    /\ \A k \in 1..Len(attempts) :
          attempts[k].outcome = "raised" =>
             /\ attempts[k].batch = k
             /\ HasLine(console, "batch_error", k)
             /\ file_out # "none" => HasLine(file_log, "batch_error", k)

\* C3 witness: batch 2 of 3 raised, batches 1 and 3 were scored, and a
\* missing marker is among the aggregated scores.
C3_Witness ==
    /\ pc = "done"
    /\ Len(attempts) = 3
    /\ attempts[1].outcome = "scored"
    /\ attempts[2].outcome = "raised"
    /\ attempts[3].outcome = "scored"
    /\ \E m \in DOMAIN all_results :
          /\ Len(all_results[m]) = 2
          /\ \E j \in 1..2 : all_results[m][j].kind # "num"

NeverFails == \A k \in 1..Len(attempts) : ~Failed(attempts[k])

\* C4 as stated: if no batch fails, after a full run every requested metric
\* has an aggregated list of length n.
C4_EveryRequestedMetric ==
    (FullRun /\ NeverFails) =>
       \A m \in Range(metric_names) : AggLen(m) = sample_count

\* C4 amended: if no batch fails, after a full run every requested metric
\* that create_metrics knows has an aggregated list of length n (a requested
\* name it does not know is dropped with a warning and gets no list).
C4_EveryKnownRequestedMetric ==
    (FullRun /\ NeverFails) =>
       /\ \A m \in Range(metric_names) \cap metrics_definitions :
             AggLen(m) = sample_count
       /\ \A m \in Range(metric_names) \ metrics_definitions : AggLen(m) = 0

\* C4 witness: a full run without failure over 3 samples in batches of 2,
\* with a name requested that create_metrics does not know.
C4_Witness ==
    /\ FullRun /\ NeverFails
    /\ sample_count = 3 /\ batch_size = 2
    /\ Range(metric_names) \ metrics_definitions # {}
    /\ Range(metric_names) \cap metrics_definitions # {}

\* C5: for n >= 1 samples and batch size b >= 1, batch k covers the index
\* range [(k-1)*b, min(k*b, n)); a finished run has attempted ceil(n/b)
\* batches, all of size b but the last, whose size is n mod b (b when that is
\* 0), and the batches cover [0, n) without gap or overlap.
C5_BatchPartition ==
    LET n == sample_count
        b == batch_size
    IN  /\ \A k \in 1..Len(attempts) :
              /\ attempts[k].batch = k
              /\ attempts[k].first = (k - 1) * b
              /\ attempts[k].last = (IF k * b < n THEN k * b ELSE n)
        /\ (FullRun /\ n >= 1 /\ b >= 1) =>
              /\ Len(attempts) * b >= n
              /\ (Len(attempts) - 1) * b < n
              /\ \A k \in 1..(Len(attempts) - 1) :
                    attempts[k].last - attempts[k].first = b
              /\ attempts[Len(attempts)].last - attempts[Len(attempts)].first
                    = (IF n % b = 0 THEN b ELSE n % b)
              /\ \A x \in 0..(n - 1) :
                    Cardinality({k \in 1..Len(attempts) :
                        attempts[k].first <= x /\ x < attempts[k].last}) = 1

\* C5 witness: a finished run over 3 samples in batches of 2: two batches,
\* the last one of a single sample.
C5_Witness ==
    /\ FullRun
    /\ sample_count = 3 /\ batch_size = 2
    /\ Len(attempts) = 2
    /\ attempts[2].last - attempts[2].first = 1

\* The indices of the numeric (non-missing) entries of a list, their number
\* and their sum as a fraction.
NumericAt(xs) == {j \in 1..Len(xs) : xs[j].kind = "num"}

RECURSIVE SumAt(_, _)
SumAt(xs, J) ==
    IF J = {} THEN <<0, 1>>
    ELSE LET j == CHOOSE x \in J : TRUE
         IN  FracAdd(<<xs[j].n, xs[j].d>>, SumAt(xs, J \ {j}))

\* mean = (sum of the numeric entries) / (number of numeric entries)
IsMeanOfNumeric(mean, xs) ==
    /\ NumericAt(xs) # {}
    /\ mean[1] * SumAt(xs, NumericAt(xs))[2] * Cardinality(NumericAt(xs))
          = SumAt(xs, NumericAt(xs))[1] * mean[2]

\* The run ended by going through the completion step and returned a summary
\* computed from the batches that were scored.
RunCompleted ==
    /\ FullRun
    /\ \A m \in Range(metrics) :
          LET xs == ConcatScored(m, Len(attempts)) IN
          /\ m \in DOMAIN ret.value <=> NumericAt(xs) # {}
          /\ m \in DOMAIN ret.value => IsMeanOfNumeric(ret.value[m], xs)
    /\ DOMAIN ret.value \subseteq Range(metrics)

\* C6: provided every scoring call returns or raises, a run over a non-empty
\* loaded dataset with batch_size >= 1 always ends by reaching the completion
\* step and returning the summary of the successful batches, whichever
\* batches fail (all of them included): no batch failure aborts the run.
C6_RunAlwaysCompletes ==
    /\ (pc = "loop" /\ sample_count >= 1 /\ batch_size >= 1) ~> (pc = "done")
    /\ []((pc = "done" /\ attempts # <<>>) => RunCompleted)

\* C6 witness: a run of three batches that all raised has completed and
\* returned the (empty) summary.
C6_Witness ==
    /\ RunCompleted
    /\ Len(attempts) = 3
    /\ \A k \in 1..3 : attempts[k].outcome = "raised"
    /\ ret.value = <<>>

\* C7: the summary mean of a metric is the arithmetic mean of its non-missing
\* entries only (missing entries count neither in the sum nor in the number
\* of entries); for [1.0, missing, 0.5] it is 0.75 (logged as 0.7500), not
\* 0.5.
C7_MeanIgnoresMissing ==
    FullRun =>
       \A m \in DOMAIN summary_results :
          /\ m \in DOMAIN all_results
          /\ IsMeanOfNumeric(summary_results[m], all_results[m])
          /\ all_results[m] = << Num(1, 1), NaN, Num(1, 2) >> =>
                /\ FracEq(summary_results[m], <<3, 4>>)
                /\ ~FracEq(summary_results[m], <<1, 2>>)
                /\ \E j \in 1..Len(console) :
                      /\ console[j].kind = "mean"
                      /\ console[j].name = m
                      /\ console[j].avg = 7500

\* C7 witness: a finished run whose accuracy list is [1.0, nan, 0.5].
C7_Witness ==
    /\ FullRun
    /\ "accuracy" \in DOMAIN summary_results
    /\ all_results["accuracy"] = << Num(1, 1), NaN, Num(1, 2) >>

\* C8: the summary has a key for a metric exactly when the metric has a
\* non-missing score in the aggregate.  A metric that was never scored has no
\* key and no line in the summary section; a metric whose scores are all
\* missing has no key and is logged as "no valid scores"; only a metric with
\* a key is logged with a mean.
C8_SummaryKeys ==
    ret.returned =>
       /\ summary_results = ret.value
       /\ \A m \in Range(metric_names) \cup DOMAIN all_results
                   \cup DOMAIN ret.value :
             /\ m \in DOMAIN ret.value <=>
                   (m \in DOMAIN all_results /\ NumericAt(all_results[m]) # {})
             /\ (\E j \in 1..Len(console) :
                    console[j].kind = "mean" /\ console[j].name = m)
                   <=> m \in DOMAIN ret.value
             /\ (\E j \in 1..Len(console) :
                    console[j].kind = "no_valid" /\ console[j].name = m)
                   <=> (FullRun /\ m \in DOMAIN all_results
                        /\ NumericAt(all_results[m]) = {})

\* C8 witness: a finished run in which one metric has only missing scores
\* (no key), another has a valid score (a key), both having been scored.
C8_Witness ==
    /\ FullRun
    /\ \E m \in DOMAIN all_results :
          all_results[m] # <<>> /\ m \notin DOMAIN ret.value
    /\ \E m \in DOMAIN all_results : m \in DOMAIN ret.value

\* C14: when a log file was requested it is open from set-up on, and at
\* every point of the run the file holds every message passed to log so
\* far, in call order, whether or not the message went to the console as
\* well (the file holds, besides, the tracebacks printed into it); the
\* console holds the messages logged for it.
C14_FileHoldsEveryMessage ==
    /\ (output_file /\ pc # "start") => file_out # "none"
    /\ file_out # "none" =>
          SelectSeq(file_log, LAMBDA l : l.kind # "traceback")
             = Lines(logged)
    /\ console = Lines(SelectSeq(logged, LAMBDA m : m.to_console))
    /\ ~output_file => file_log = <<>> /\ file_out = "none"

\* C14 witness: between two batches, after a scored and a raised batch, the
\* open file holds a message that did not go to the console and the failure
\* entry of the raised batch.
C14_Witness ==
    /\ pc = "loop"
    /\ file_out = "open"
    /\ HasNext(i)
    /\ \E k \in 1..Len(attempts) : attempts[k].outcome = "raised"
    /\ \E k \in 1..Len(attempts) : attempts[k].outcome = "scored"
    /\ \E j \in 1..Len(logged) : ~logged[j].to_console
    /\ Len(file_log) > Len(console)

\* The attempts that were scored, in order, and the marker lines of a log.
ScoredAttempts == SelectSeq(attempts, LAMBDA a : a.outcome = "scored")

Markers(log) == SelectSeq(log, IsMarker)

\* C15: the text log holds exactly one "batch N results" block per batch
\* that was evaluated (its scoring call returned scores), in increasing N.
\* The marker of batch N is directly followed by one list-literal line per
\* metric returned for the batch, in the order returned, each the metric's
\* full score list of the batch: one entry per sample, missing scores
\* included; no further list line follows.
C15_OneBlockPerScoredBatch ==
    file_out # "none" =>
       /\ Len(Markers(file_log)) = Len(ScoredAttempts)
       /\ \A k \in 1..Len(ScoredAttempts) :
             /\ Markers(file_log)[k].num = ScoredAttempts[k].batch
             /\ k > 1 => ScoredAttempts[k - 1].batch < ScoredAttempts[k].batch
       /\ \A p \in 1..Len(file_log) :
             IsMarker(file_log[p]) =>
                LET a == attempts[file_log[p].num]
                    keys == SelectSeq(metrics, LAMBDA m : m \in DOMAIN a.scores)
                IN  /\ a.outcome = "scored"
                    /\ Len(keys) = Cardinality(DOMAIN a.scores)
                    /\ p + Len(keys) + 1 <= Len(file_log)
                    /\ \A j \in 1..Len(keys) :
                          /\ IsList(file_log[p + j], keys[j])
                          /\ file_log[p + j].text = ListText(a.scores[keys[j]])
                          /\ Len(file_log[p + j].text) = a.last - a.first
                    /\ file_log[p + Len(keys) + 1].kind # "scores"

\* C15 witness: a finished run of three batches, the second of which raised:
\* the log holds the blocks of batches 1 and 3, one of them listing a missing
\* score.
C15_Witness ==
    /\ FullRun
    /\ file_out = "closed"
    /\ Len(attempts) = 3
    /\ attempts[2].outcome = "raised"
    /\ Len(Markers(file_log)) = 2
    /\ Markers(file_log)[1].num = 1
    /\ Markers(file_log)[2].num = 3
    /\ \E j \in 1..Len(file_log) :
          /\ file_log[j].kind = "scores"
          /\ \E x \in 1..Len(file_log[j].text) :
                file_log[j].text[x] \in {"nan", "None"}

\* C16: a failure while the JSON summary is written (creating the
\* directory, opening the file, serialising) is caught and logged and does
\* not reach the run-level handler: the run returns the summary of the
\* aggregate, the same whether the write failed or succeeded.  The same
\* holds for the failure of the visualisation.
C16_OutputFailureAbsorbed ==
    (FullRun /\ sample_count >= 1) =>
       /\ ret.value = Summary(all_results)
       /\ ret.value = summary_results
       /\ ~HasLine(console, "run_error", 0)
       /\ json_output =>
             /\ HasLine(console, "json_saving", 0)
             /\ json_file.written <=> HasLine(console, "json_saved", 0)
             /\ ~json_file.written <=> HasLine(console, "json_error", 0)
             /\ json_file.written => json_file.object.summary = ret.value
       /\ visualize =>
             HasLine(console, "viz_start", 0) /\ HasLine(console, "viz_error", 0)

\* C16 witness: a run with a valid score whose JSON write and visualisation
\* both failed has returned its non-empty summary.
C16_Witness ==
    /\ FullRun
    /\ json_output /\ visualize
    /\ ~json_file.written
    /\ HasLine(console, "json_error", 0)
    /\ HasLine(console, "viz_error", 0)
    /\ ret.value # <<>>

\* The run ended during set-up: the dataset path does not exist, or loading
\* the dataset or constructing the LLM wrapper raised.
SetupFailed ==
    /\ pc = "done"
    /\ \/ HasLine(console, "no_dataset", 0)
       \/ HasLine(console, "run_error", 0) /\ ~HasLine(console, "model", 0)

\* C17: when set-up fails the run aborts before any batch is attempted, no
\* summary and no JSON summary file is produced, and the failure is surfaced
\* to the caller: the call ends with the failure instead of returning a
\* summary mapping.
C17_SetupFailureSurfaced ==
    SetupFailed =>
       /\ attempts = <<>>
       /\ ~completed
       /\ summary_results = <<>>
       /\ ~json_file.written
       /\ ~ret.returned

\* C18: set-up leaves the requested sample count as it is when it lies in
\* 1..len(dataset) and replaces it by len(dataset) when it is <= 0 or beyond
\* len(dataset); the indices selected for a batch are below the evaluated
\* count, hence below len(dataset).
C18_EvaluatedCount ==
    /\ [][ (pc = "start" /\ pc' = "loop") =>
              sample_count' =
                 (IF 1 <= sample_count /\ sample_count <= total_samples
                  THEN sample_count ELSE total_samples) ]_vars
    /\ [](pc # "start" /\ dataset_exists /\ HasLine(console, "loading", 0)
             /\ (HasLine(console, "evaluate_all", total_samples)
                 \/ HasLine(console, "total", total_samples))
          => /\ 0 <= sample_count /\ sample_count <= total_samples
             /\ HasLine(console, "evaluate_n", sample_count)
                   \/ sample_count = total_samples)
    /\ [](\A k \in 1..Len(attempts) :
             /\ 0 <= attempts[k].first
             /\ attempts[k].first < attempts[k].last
             /\ attempts[k].last <= sample_count
             /\ attempts[k].last <= total_samples)

\* C18 witness: a finished run that evaluated all 3 samples of the dataset
\* ("evaluate all" was logged), the last batch ending at index 3.
C18_Witness ==
    /\ FullRun
    /\ HasLine(console, "evaluate_all", 3)
    /\ total_samples = 3 /\ sample_count = 3
    /\ attempts # <<>>
    /\ attempts[Len(attempts)].last = 3

\* The log holds a failure entry for batch b: the handler's error line, or
\* the line saying that the result carries no scores dictionary.
FailureEntry(b) ==
    HasLine(console, "batch_error", b) \/ HasLine(console, "no_scores_dict", b)

\* The scores returned for metric m by those of the first k attempts that
\* have no failure entry, concatenated in order.
RECURSIVE ConcatUnfailed(_, _)
ConcatUnfailed(m, k) ==
    IF k = 0 THEN <<>>
    ELSE ConcatUnfailed(m, k - 1)
         \o (IF ~FailureEntry(attempts[k].batch) /\ m \in DOMAIN attempts[k].scores
             THEN attempts[k].scores[m] ELSE <<>>)

\* C20: every attempted batch has exactly one outcome.  Either a results
\* block for it is in the log and there is no failure entry, and its scores
\* are in the metric lists; or a failure entry is logged, there is no results
\* block for it and none of its scores is in any metric list.  This also
\* when the exception is raised after the scoring call has returned.
C20_OneOutcomePerBatch ==
    /\ \A k \in 1..Len(attempts) :
          /\ ~(FailureEntry(attempts[k].batch)
               /\ HasLine(file_log, "results", attempts[k].batch))
          /\ file_out # "none" =>
                \/ FailureEntry(attempts[k].batch)
                \/ HasLine(file_log, "results", attempts[k].batch)
    /\ \A m \in Range(metrics) :
          (IF m \in DOMAIN all_results THEN all_results[m] ELSE <<>>)
             = ConcatUnfailed(m, Len(attempts))

\* Positions in the sequence of log calls of the messages of a kind that
\* name batch k.
CallsOf(kind, k) ==
    {j \in 1..Len(logged) :
       logged[j].line.kind = kind /\ logged[j].line.num = k}

\* C25: the scoring calls are made one after the other in index order.  The
\* k-th call is that of batch k, on the samples following those of batch
\* k - 1; a step makes at most one call; the call of batch k + 1 is announced
\* only after batch k has been closed, by its failure entry or by its
\* progress line; no batch is announced twice; and after a batch that is not
\* the last one, failed or not, the loop stands at the next batch, so that
\* the run ends only after every batch was attempted.
C25_SequentialInOrder ==
    /\ [](\A k \in 1..Len(attempts) :
             /\ attempts[k].batch = k
             /\ attempts[k].first = (k - 1) * batch_size
             /\ Cardinality(CallsOf("begin", k)) = 1
             /\ k > 1 =>
                   \E e \in CallsOf("continue", k - 1)
                              \cup CallsOf("total_progress", k - 1) :
                      \A b \in CallsOf("begin", k) : e < b)
    /\ [](\A j \in 1..Len(logged) :
             logged[j].line.kind = "begin" =>
                logged[j].line.num \in 1..Len(attempts))
    /\ [][Len(attempts') <= Len(attempts) + 1]_vars
    /\ [][(/\ Len(attempts') = Len(attempts) + 1
            /\ attempts'[Len(attempts')].last < sample_count)
              => (pc' = "loop" /\ i' = attempts'[Len(attempts')].last)]_vars
    /\ (pc = "loop") ~>
          (pc = "done" /\ Len(attempts) * batch_size >= sample_count)

\* C25 witness: three batches were attempted in order, the second raised and
\* the third was scored.
C25_Witness ==
    /\ FullRun
    /\ Len(attempts) = 3
    /\ attempts[2].outcome = "raised"
    /\ attempts[3].outcome = "scored"
    /\ attempts[3].batch = 3
    /\ CallsOf("begin", 3) # {}

\* C27: the text log file is opened at most once and closed exactly once on
\* every way out of the run: when the run has ended no file is left open, the
\* file never goes back from closed to open or from open to unopened, and
\* once it is closed no log call is made and nothing is written to it.
C27_FileClosedOnEveryExit ==
    /\ [](pc = "done" => file_out \in {"none", "closed"})
    /\ [][file_out' # file_out =>
             \/ file_out = "none" /\ file_out' \in {"open", "closed"}
             \/ file_out = "open" /\ file_out' = "closed"]_vars
    /\ [][file_out = "closed" =>
             (file_log' = file_log /\ logged' = logged)]_vars

\* C28: a run over a loaded dataset with zero samples attempts no batch and
\* completes normally: it goes through the completion step without a
\* run-level error, returns the empty summary and, when a JSON summary was
\* requested, writes it with evaluated_samples = 0 (unless the write itself
\* failed and was logged).
C28_ZeroSamplesCompletes ==
    (pc = "done" /\ HasLine(console, "model", 0) /\ total_samples = 0) =>
       /\ attempts = <<>>
       /\ completed
       /\ ret.returned /\ ret.value = <<>>
       /\ ~HasLine(console, "run_error", 0)
       /\ json_output =>
             \/ HasLine(console, "json_error", 0)
             \/ /\ json_file.written
                /\ json_file.object.evaluated_samples = 0

\* C29: the evaluated-sample count of the completion log and of the JSON
\* summary is the clamped count n fixed by set-up, whatever batches failed.
\* The count does not change once the loop is entered; a run that reaches
\* completion logs it once, it is the number of samples of all attempted
\* batches, scored or failed, no aggregated list is longer, and a JSON
\* summary that is written carries the same number.
C29_EvaluatedCountReported ==
    /\ [][pc = "loop" => sample_count' = sample_count]_vars
    /\ [](completed =>
            /\ Cardinality({j \in 1..Len(console) :
                              console[j].kind = "evaluated"}) = 1
            /\ HasLine(console, "evaluated", sample_count)
            /\ attempts # <<>> => attempts[Len(attempts)].last = sample_count
            /\ \A m \in DOMAIN all_results : AggLen(m) <= sample_count
            /\ json_file.written =>
                  json_file.object.evaluated_samples = sample_count)

\* C29 witness: a run of three samples in which a batch failed has written a
\* JSON summary with evaluated_samples = 3 although every aggregated list is
\* shorter.
C29_Witness ==
    /\ FullRun
    /\ FailedBatches # {}
    /\ json_file.written
    /\ json_file.object.evaluated_samples = 3
    /\ HasLine(console, "evaluated", 3)
    /\ DOMAIN all_results # {}
    /\ \A m \in DOMAIN all_results : AggLen(m) < 3

\* C30: with batch_size <= 0 the scorer is never invoked, the call returns
\* (no exception leaves it) and the returned summary is empty.  With
\* batch_size = 0 the run ends in the run-level handler before the
\* completion step; with batch_size < 0 and samples to evaluate the loop has
\* no iteration and the run completes without error.
C30_NonPositiveBatchSize ==
    batch_size <= 0 =>
       /\ attempts = <<>>
       /\ ~HasLine(console, "begin", 1)
       /\ pc = "done" =>
             /\ ret.returned /\ ret.value = <<>>
             /\ (batch_size = 0 /\ HasLine(console, "model", 0)) =>
                   HasLine(console, "run_error", 0) /\ ~completed
             /\ (batch_size < 0 /\ HasLine(console, "model", 0)
                   /\ sample_count >= 1) =>
                   completed /\ ~HasLine(console, "run_error", 0)

\* C30 witness: a run with batch_size = 0 over three samples has ended in
\* the run-level handler and returned the empty mapping.
C30_Witness ==
    /\ pc = "done"
    /\ batch_size = 0
    /\ sample_count = 3
    /\ HasLine(console, "model", 0)
    /\ HasLine(console, "run_error", 0)
    /\ attempts = <<>>
    /\ ret.returned /\ ret.value = <<>>

(***************************************************************************)
(* Properties of the log record extractor.                                 *)
(***************************************************************************)
\* Two values are the same value: numbers by their numeric value, whatever
\* the text they were read from ("0.7500" and "0.75"), anything else by
\* identity.
SameValue(a, b) ==
    IF a.kind = "num" /\ b.kind = "num"
       THEN a.n * b.d = b.n * a.d
       ELSE a = b

\* Some extracted record of batch b and index idx carries value v under the
\* field name f.
Recovered(b, idx, f, v) ==
    \E r \in 1..Len(records.list) :
       /\ records.list[r].batch = b
       /\ records.list[r].index = idx
       /\ f \in DOMAIN records.list[r].fields
       /\ SameValue(records.list[r].fields[f], v)

\* C9: round trip.  From the text log of a run the extractor recovers, for
\* every scored batch b, sample index i and metric m of that batch, the score
\* the run logged for m at (b, i), a missing score as the missing marker it
\* was.
C9_RoundTrip ==
    (records.extracted /\ FullRun) =>
       \A k \in 1..Len(attempts) :
          attempts[k].outcome = "scored" =>
             \A m \in DOMAIN attempts[k].scores :
                \A j \in 1..Len(attempts[k].scores[m]) :
                   Recovered(attempts[k].batch, j - 1, m,
                             attempts[k].scores[m][j])

\* The lines of the block of the marker at line p: up to the next marker or
\* the end of the text.
BlockOf(content, p) ==
    LET next == FirstMarkerFrom(content, p + 1)
    IN  (p + 1)..(IF next = 0 THEN Len(content) ELSE next - 1)

\* Position of a field in the pattern's order, 0 for any other name.
FieldNo(name) ==
    Least({g \in 1..Len(FieldOrder) : FieldOrder[g] = name})

\* The block holds known fields only once each and in the pattern's order.
OrderedBlock(content, p) ==
    \A j1, j2 \in BlockOf(content, p) :
       (j1 < j2 /\ content[j1].kind = "scores" /\ content[j2].kind = "scores")
          => /\ FieldNo(content[j1].name) # 0
             /\ FieldNo(content[j1].name) < FieldNo(content[j2].name)

\* C10: full-schema tier.  For a "batch N results" block holding any subset
\* of the twelve known fields (once each, in the pattern's order), every
\* field present in the block is extracted under its own name with its own
\* list value; a block that lacks a field such as accuracy still yields the
\* fields it holds.
C10_EveryFieldOfBlock ==
    (records.extracted /\ ~records.raised) =>
       \A p \in 1..Len(file_log) :
          (IsMarker(file_log[p]) /\ OrderedBlock(file_log, p)) =>
             \A j \in BlockOf(file_log, p) :
                (file_log[j].kind = "scores" /\ FieldNo(file_log[j].name) # 0)
                   => \A x \in 1..Len(safe_eval(file_log[j].text)) :
                         Recovered(file_log[p].num, x - 1, file_log[j].name,
                                   safe_eval(file_log[j].text)[x])

HasMarker(content) == \E j \in 1..Len(content) : IsMarker(content[j])

\* The records the per-field scan builds, none when no list is found.
ScanRecords(content) ==
    IF DOMAIN ScanResults(content) = {} THEN <<>>
    ELSE BuildRecords(1, ScanResults(content))

\* C11 as stated, of an extraction that returns: the first tier that yields any match wins for the whole
\* text, its matches are turned into records and those records are the
\* result; the per-field scan, with the bare scan as its last resort, is
\* consulted only when neither pattern matched.
C11_FirstMatchingTierWins ==
    (records.extracted /\ ~records.raised) =>
       IF ExpandedMatches(file_log, 1) # <<>>
       THEN records.list = RecordsOfMatches(ExpandedMatches(file_log, 1))
       ELSE IF BasicMatches(file_log) # {}
       THEN records.list # <<>>
       ELSE records.list = (IF ScanRecords(file_log) # <<>>
                            THEN ScanRecords(file_log)
                            ELSE BareRecord(file_log))

\* C11 amended, of an extraction that returns: the full-schema pattern is tried first and matches exactly
\* when the text holds a batch marker; then the records are those built from
\* its matches and neither the reduced pattern nor the per-field scan is
\* consulted.  The per-field scan is consulted only when there is no marker.
\* The bare scan is consulted whenever the records built so far are none,
\* also after the full-schema pattern has matched, and its record is then
\* the result.
C11_TierOrder ==
    (records.extracted /\ ~records.raised) =>
       LET built == IF HasMarker(file_log)
                    THEN RecordsOfMatches(ExpandedMatches(file_log, 1))
                    ELSE ScanRecords(file_log)
       IN  /\ HasMarker(file_log) <=> ExpandedMatches(file_log, 1) # <<>>
           /\ built # <<>> => records.list = built
           /\ built = <<>> => records.list = BareRecord(file_log)

\* C11 witness: the text holds a batch marker whose block yields no record
\* and a bare "metric: number" line: the result is the record of the bare
\* scan.
C11_Witness ==
    /\ records.extracted
    /\ HasMarker(file_log)
    /\ RecordsOfMatches(ExpandedMatches(file_log, 1)) = <<>>
    /\ records.list # <<>>
    /\ records.list = BareRecord(file_log)

\* The text holds no batch marker and no list-literal line.
BareOnly(content) ==
    \A j \in 1..Len(content) : content[j].kind \notin {"results", "scores"}

\* C12: a text of bare "metric: number" lines without batch marker that
\* holds a metric the bare pattern knows yields a non-empty result: a
\* synthetic record of batch 1, index 0 that carries every distinct such
\* metric, with the number of its last occurrence (nan when the digits are
\* no number).
C12_BareFallback ==
    (records.extracted /\ BareOnly(file_log)
       /\ \E j \in 1..Len(file_log) : IsBare(file_log[j])) =>
       /\ records.list # <<>>
       /\ \A j \in 1..Len(file_log) :
             IsBare(file_log[j]) =>
                \E r \in 1..Len(records.list) :
                   /\ records.list[r].batch = 1
                   /\ records.list[r].index = 0
                   /\ file_log[j].name \in DOMAIN records.list[r].fields
                   /\ (\A h \in (j + 1)..Len(file_log) :
                          ~(IsBare(file_log[h])
                            /\ file_log[h].name = file_log[j].name))
                      => records.list[r].fields[file_log[j].name]
                            = (IF file_log[j].avg = BadNumber THEN NaN
                               ELSE Num(file_log[j].avg, 10000))

\* C12 witness: a text of bare lines only with two distinct metrics, one of
\* them occurring twice; both are in the result.
C12_Witness ==
    /\ records.extracted
    /\ BareOnly(file_log)
    /\ \E j1, j2, j3 \in 1..Len(file_log) :
          /\ j1 < j2
          /\ IsBare(file_log[j1]) /\ IsBare(file_log[j2]) /\ IsBare(file_log[j3])
          /\ file_log[j1].name = file_log[j2].name
          /\ file_log[j1].avg # file_log[j2].avg
          /\ file_log[j3].name # file_log[j1].name
    /\ Len(records.list) = 1
    /\ Cardinality(DOMAIN records.list[1].fields) = 2

\* C13: extraction never raises, whatever the text.  A list literal that
\* neither eval (after nan has been rewritten to np.nan) nor json can read
\* gives the empty list for its field, and the text still yields the records
\* of its other fields, the unread field being missing in them.
C13_NeverRaises ==
    records.extracted =>
       /\ ~records.raised
       /\ \A j \in 1..Len(file_log) :
             file_log[j].kind = "scores" =>
                /\ safe_eval(file_log[j].text) # Raise
                /\ \A x \in 1..Len(safe_eval(file_log[j].text)) :
                      safe_eval(file_log[j].text)[x].kind
                         \in {"num", "nan", "none", "str"}
                /\ (\E x \in 1..Len(file_log[j].text) :
                       file_log[j].text[x] = "oops")
                      => safe_eval(file_log[j].text) = <<>>
                /\ (\E x \in 1..Len(file_log[j].text) :
                       file_log[j].text[x] = "nan")
                      => \E x \in 1..Len(safe_eval(file_log[j].text)) :
                            safe_eval(file_log[j].text)[x] = NaN
       /\ \A r \in 1..Len(records.list) :
             \A f \in DOMAIN records.list[r].fields :
                records.list[r].fields[f].kind \in {"num", "nan", "none", "str"}

\* Some list-literal line of the block of a marker numbered b holds value v
\* at position idx (counted from 0), under whatever field name.
InBlockOfBatch(content, b, idx, v) ==
    \E p \in 1..Len(content) :
       /\ IsMarker(content[p])
       /\ content[p].num = b
       /\ \E j \in BlockOf(content, p) :
             /\ content[j].kind = "scores"
             /\ idx + 1 <= Len(safe_eval(content[j].text))
             /\ SameValue(safe_eval(content[j].text)[idx + 1], v)

\* C21: full-schema tier, block boundary.  When the full-schema tier yields
\* the records, every value a record of batch N carries is taken from the text between a marker of batch N and the next
\* marker (or the end of the text), never from behind the next marker; and
\* every marker whose block holds an accuracy list produces records of its
\* own batch, in whatever order the fields stand in the text.
C21_BlockBoundary ==
    (/\ records.extracted /\ ~records.raised
     /\ RecordsOfMatches(ExpandedMatches(file_log, 1)) # <<>>) =>
       /\ \A r \in 1..Len(records.list) :
             \A f \in DOMAIN records.list[r].fields :
                records.list[r].fields[f] # NaN =>
                   InBlockOfBatch(file_log, records.list[r].batch,
                                  records.list[r].index,
                                  records.list[r].fields[f])
       /\ \A p \in 1..Len(file_log) :
             (/\ IsMarker(file_log[p])
              /\ \E j \in BlockOf(file_log, p) :
                    /\ IsList(file_log[j], "accuracy")
                    /\ safe_eval(file_log[j].text) # <<>>)
                => \E r \in 1..Len(records.list) :
                      records.list[r].batch = file_log[p].num

\* The field lists that enter the zip, block by block: those of the matches
\* of the full-schema pattern, or those of the per-field scan when the text
\* holds no marker and the scan finds a list.
ZippedBlocks(content) ==
    LET ms == ExpandedMatches(content, 1)
    IN  IF ms # <<>>
        THEN [k \in 1..Len(ms) |->
                [batch |-> ms[k].batch_num, fields |-> MatchFieldsOf(ms[k])]]
        ELSE IF DOMAIN ScanResults(content) # {}
        THEN << [batch |-> 1, fields |-> ScanResults(content)] >>
        ELSE <<>>

LongestList(fields) == Max({Len(fields[f]) : f \in DOMAIN fields})

\* Number of records of the blocks before block k.
RECURSIVE RecordsBefore(_, _)
RecordsBefore(blocks, k) ==
    IF k <= 1 THEN 0
    ELSE RecordsBefore(blocks, k - 1) + LongestList(blocks[k - 1].fields)

ScanLines(content) ==
    {j \in 1..Len(content) :
       content[j].kind = "scores" /\ content[j].name \in Range(ScanMetrics)}

\* Line j is the first list-literal line of its metric.
FirstOfMetric(content, j) ==
    \A h \in 1..(j - 1) : ~IsList(content[h], content[j].name)

\* C23 as stated: in a text without batch marker every list-literal
\* occurrence of a known metric contributes its scores to the records of the
\* synthetic batch 1.
C23_EveryOccurrenceFolded ==
    (records.extracted /\ ~records.raised /\ ~HasMarker(file_log)) =>
       \A j \in ScanLines(file_log) :
          \A x \in 1..Len(safe_eval(file_log[j].text)) :
             \E r \in 1..Len(records.list) :
                /\ records.list[r].batch = 1
                /\ file_log[j].name \in DOMAIN records.list[r].fields
                /\ SameValue(records.list[r].fields[file_log[j].name],
                             safe_eval(file_log[j].text)[x])

\* C23 amended: in a text without batch marker the first list-literal
\* occurrence of every known metric, wherever it stands, gives the scores of
\* that metric in the records of one synthetic batch 1, score x at index
\* x - 1; a later occurrence of the same metric contributes nothing.
C23_FirstOccurrenceFolded ==
    (/\ records.extracted /\ ~records.raised /\ ~HasMarker(file_log)
     /\ \E j \in ScanLines(file_log) :
           FirstOfMetric(file_log, j) /\ safe_eval(file_log[j].text) # <<>>) =>
       /\ \A r \in 1..Len(records.list) : records.list[r].batch = 1
       /\ \A r1, r2 \in 1..Len(records.list) :
             records.list[r1].index = records.list[r2].index => r1 = r2
       /\ \A j \in ScanLines(file_log) :
             FirstOfMetric(file_log, j) =>
                /\ \A x \in 1..Len(safe_eval(file_log[j].text)) :
                      Recovered(1, x - 1, file_log[j].name,
                                safe_eval(file_log[j].text)[x])
                /\ \A r \in 1..Len(records.list) :
                      /\ file_log[j].name \in DOMAIN records.list[r].fields
                      /\ records.list[r].index
                            >= Len(safe_eval(file_log[j].text))
                         => records.list[r].fields[file_log[j].name] = NaN

\* C23 witness: a text without marker with two different accuracy lists and
\* a relevance list between them; the records are those of the first
\* accuracy list and of the relevance list.
C23_Witness ==
    /\ records.extracted
    /\ ~HasMarker(file_log)
    /\ \E j1, j2 \in ScanLines(file_log) :
          /\ j1 < j2
          /\ file_log[j1].name = "accuracy" /\ file_log[j2].name = "accuracy"
          /\ file_log[j1].text = << "0.0" >>
          /\ file_log[j2].text = << "1.0", "nan" >>
    /\ \E j \in ScanLines(file_log) : file_log[j].name = "relevance"
    /\ Len(records.list) = 1
    /\ records.list[1].fields["accuracy"] = Num(0, 1)
    /\ records.list[1].fields["relevance"] = Num(1, 2)

\* C24: whenever the full-schema pattern finds no match the reduced
\* three-metric pattern finds none either, both needing the same marker
\* line; and where the reduced pattern could match, the records are those of
\* the full-schema tier (or of the bare scan when it built none): no record
\* is produced by the reduced tier.
C24_ReducedTierUnreachable ==
    records.extracted =>
       /\ ExpandedMatches(file_log, 1) = <<>> => BasicMatches(file_log) = {}
       /\ (BasicMatches(file_log) # {} /\ ~records.raised) =>
             records.list =
                (IF RecordsOfMatches(ExpandedMatches(file_log, 1)) # <<>>
                 THEN RecordsOfMatches(ExpandedMatches(file_log, 1))
                 ELSE BareRecord(file_log))

\* C24 witness: a text holding what the reduced pattern describes, a marker
\* line directly followed by the accuracy, completeness and relevance lists;
\* its records come from the full-schema tier, with all twelve fields.
C24_Witness ==
    /\ records.extracted
    /\ BasicMatches(file_log) # {}
    /\ ExpandedMatches(file_log, 1) # <<>>
    /\ Len(records.list) = 2
    /\ Cardinality(DOMAIN records.list[1].fields) = 12
    /\ records.list[1].fields["relevance"] = Num(1, 2)

\* The records extracted for batch b.
RecordsOfBatch(b) == {r \in 1..Len(records.list) : records.list[r].batch = b}

\* C26: in the records extracted from the text log of a run, the records of
\* a batch belong to a batch the run attempted, their indices are the
\* integers from 0 to the batch's sample count minus one, each once, and no
\* two records share the same batch and index.
C26_IndicesContiguous ==
    (records.extracted /\ ~records.raised /\ FullRun) =>
       /\ \A r \in 1..Len(records.list) :
             \E k \in 1..Len(attempts) :
                /\ attempts[k].batch = records.list[r].batch
                /\ {records.list[x].index :
                      x \in RecordsOfBatch(attempts[k].batch)}
                      = 0..(attempts[k].last - attempts[k].first - 1)
       /\ \A r1, r2 \in 1..Len(records.list) :
             (/\ records.list[r1].batch = records.list[r2].batch
              /\ records.list[r1].index = records.list[r2].index) => r1 = r2

(***************************************************************************)
(* Properties of the report renderer.                                      *)
(***************************************************************************)
\* The value record k has in column c: missing when the record lacks it.
Cell(k, c) ==
    IF c \in DOMAIN records.list[k].fields THEN records.list[k].fields[c]
    ELSE NaN

\* The sum of the numeric cells among a set of <<record, column>> pairs.
RECURSIVE CellSum(_)
CellSum(cells) ==
    IF cells = {} THEN <<0, 1>>
    ELSE LET x == CHOOSE y \in cells : TRUE
         IN  RAdd(<<Cell(x[1], x[2]).n, Cell(x[1], x[2]).d>>,
                  CellSum(cells \ {x}))

\* C19: in a rendered report the card of every metric column is the mean of
\* the column over the records with a non-missing value (nan when there is
\* none), and the Overall value is the sum of all metric scores of all
\* records, a missing score counting as zero, divided by the number of
\* records and by the number of metric columns.
C19_ReportFigures ==
    (html.rendered /\ ~html.raised) =>
       LET rows == 1..Len(records.list)
           cols == UNION {DOMAIN records.list[k].fields : k \in rows}
                      \ {"user_input", "retrieved_contexts", "response",
                         "reference"}
           numeric == {x \in rows \X cols : Cell(x[1], x[2]).kind = "num"}
       IN  /\ DOMAIN html.summary_data = cols
           /\ \A m \in cols :
                 LET valued == {x \in numeric : x[2] = m}
                     card == html.summary_data[m]
                 IN  IF valued = {} THEN card = NaN
                     ELSE /\ card.kind = "num"
                          /\ card.n * CellSum(valued)[2] * Cardinality(valued)
                                = CellSum(valued)[1] * card.d
           /\ cols # {} =>
                 html.avg_total[1] * CellSum(numeric)[2]
                       * Len(records.list) * Cardinality(cols)
                    = CellSum(numeric)[1] * html.avg_total[2]

\* C19 witness: a report over two records of one block whose accuracy column
\* is [1.0, missing]: the card of accuracy is 1.0 (not 0.5) and, with the
\* eight metric columns of the block, the Overall value is 1/16.
C19_Witness ==
    /\ html.rendered /\ ~html.raised
    /\ Len(records.list) = 2
    /\ Cell(1, "accuracy") = Num(1, 1)
    /\ Cell(2, "accuracy") = NaN
    /\ html.summary_data["accuracy"] = Num(1, 1)
    /\ html.avg_total = <<1, 16>>

====
